---- MODULE Spec2Model ----
(***************************************************************************)
(* A model of the SMS relay of src/main.py: the Flask handler `incoming`,  *)
(* the worker thread `process_prompt_with_delay` (with the inlined         *)
(* `get_huggingface_response`), and the threading.Timer thread that runs   *)
(* `send_pending_reply`.                                                   *)
(*                                                                         *)
(* Python strings are sequences of one-character strings, dicts are        *)
(* functions whose DOMAIN is the set of keys present, threads are records  *)
(* with a program counter named after the source line about to execute.    *)
(* Every access to a shared dict or list is one step (the interpreter lock *)
(* makes a single dict/list operation atomic and nothing more).            *)
(***************************************************************************)
EXTENDS Integers, Sequences, FiniteSets, TLC

(* ------------------------------------------------------------------ *)
(* Python values                                                       *)
(* ------------------------------------------------------------------ *)

\* Python's None: a value that no text (sequence of characters) equals.
None == <<"<None>">>

\* Mutant of Truthy: the empty text counts as true.
TruthyUnlessNone(v) == v # None

\* Truthiness of a str-or-None value (`if reply:`, `not from_number`).
Truthy(v) == v # None /\ v # <<>>

\* dict.get(k, default)
Get(d, k, default) == IF k \in DOMAIN d THEN d[k] ELSE default

\* d[k] = v
Put(d, k, v) == [x \in (DOMAIN d) \cup {k} |-> IF x = k THEN v ELSE d[x]]

\* d.pop(k, None), the dict afterwards
Pop(d, k) == [x \in (DOMAIN d) \ {k} |-> d[x]]

\* The empty dict.
EmptyDict == [x \in {} |-> None]

Min(S) == CHOOSE x \in S : \A y \in S : x <= y
Max(S) == CHOOSE x \in S : \A y \in S : x >= y

(* ------------------------------------------------------------------ *)
(* str methods                                                         *)
(* ------------------------------------------------------------------ *)

\* The characters str.strip() removes (ASCII whitespace).
Whitespace == {" ", "\t", "\n", "\r", "\f"}

UpperLetters == <<"A", "B", "C", "D", "E", "F", "G", "H", "I", "J", "K", "L", "M",
                  "N", "O", "P", "Q", "R", "S", "T", "U", "V", "W", "X", "Y", "Z">>
LowerLetters == <<"a", "b", "c", "d", "e", "f", "g", "h", "i", "j", "k", "l", "m",
                  "n", "o", "p", "q", "r", "s", "t", "u", "v", "w", "x", "y", "z">>

IndexIn(seq, c) == CHOOSE i \in 1..Len(seq) : seq[i] = c
Occurs(seq, c) == \E i \in 1..Len(seq) : seq[i] = c

LowerChar(c) == IF Occurs(UpperLetters, c) THEN LowerLetters[IndexIn(UpperLetters, c)] ELSE c

\* str.lower()
Lower(s) == [i \in 1..Len(s) |-> LowerChar(s[i])]

\* str.strip()
Strip(s) ==
    LET keep == {i \in 1..Len(s) : s[i] \notin Whitespace}
    IN  IF keep = {} THEN <<>> ELSE SubSeq(s, Min(keep), Max(keep))

\* str.startswith(p)
StartsWith(s, p) == Len(s) >= Len(p) /\ SubSeq(s, 1, Len(p)) = p

\* s[n:]
SliceFrom(s, n) == SubSeq(s, n + 1, Len(s))

\* s[:n]
SliceTo(s, n) == SubSeq(s, 1, IF n < Len(s) THEN n ELSE Len(s))

\* l[-n:] for n > 0
LastN(l, n) == SubSeq(l, IF Len(l) > n THEN Len(l) - n + 1 ELSE 1, Len(l))

Digits == <<"0", "1", "2", "3", "4", "5", "6", "7", "8", "9">>

\* ord(c) of an ASCII character (letters, digits, whitespace and the
\* punctuation that occurs in message bodies).
Ord(c) ==
    CASE Occurs(UpperLetters, c) -> 64 + IndexIn(UpperLetters, c)
      [] Occurs(LowerLetters, c) -> 96 + IndexIn(LowerLetters, c)
      [] Occurs(Digits, c) -> 47 + IndexIn(Digits, c)
      [] c = "\t" -> 9
      [] c = "\n" -> 10
      [] c = "\f" -> 12
      [] c = "\r" -> 13
      [] c = " " -> 32
      [] c = "!" -> 33
      [] c = "+" -> 43
      [] c = "," -> 44
      [] c = "." -> 46
      [] c = "?" -> 63

\* str.encode(): the UTF-8 bytes of an ASCII text.
Encode(s) == [i \in 1..Len(s) |-> Ord(s[i])]

\* hashlib.sha256(b).hexdigest(): a deterministic digest of the bytes.  SHA-256
\* itself is replaced by a polynomial digest, which separates the message
\* bodies the model sends, as SHA-256 does.
RECURSIVE DigestFrom(_, _, _)
DigestFrom(b, i, h) ==
    IF i > Len(b) THEN h ELSE DigestFrom(b, i + 1, (h * 131 + b[i]) % 15485863)

Sha256Hex(b) == DigestFrom(b, 1, 7)

(* ------------------------------------------------------------------ *)
(* Configuration (src/main.py lines 12-42)                             *)
(* ------------------------------------------------------------------ *)

\* PHONE_NUMBER="+1555,+1666"
Sender1 == <<"+", "1", "5", "5", "5">>
Sender2 == <<"+", "1", "6", "6", "6">>
Stranger == <<"+", "1", "9", "9", "9">>
WHITELIST == {Sender1, Sender2}

TRIGGER_PREFIX == <<"C", "h", "a", "t">>
MAX_SMS_CHARS == 1200
REPEAT_TIMEOUT == 30
MAX_CONTEXT_LEN == 10
\* Timer(2.0, ...)
TIMER_INTERVAL == 2

UNAVAILABLE_REPLY ==
    <<"U+26A0", "U+FE0F", " ", "H", "u", "g", "g", "i", "n", "g", "F", "a", "c", "e",
      " ", "A", "P", "I", " ", "i", "s", " ", "c", "u", "r", "r", "e", "n", "t", "l",
      "y", " ", "u", "n", "a", "v", "a", "i", "l", "a", "b", "l", "e", " ", "o", "r",
      " ", "r", "a", "t", "e", "-", "l", "i", "m", "i", "t", "e", "d", ".">>

API_ERROR_REPLY ==
    <<"U+26A0", "U+FE0F", " ", "H", "u", "g", "g", "i", "n", "g", "F", "a", "c", "e",
      " ", "A", "P", "I", " ", "e", "r", "r", "o", "r", ".", " ", "T", "r", "y", " ",
      "a", "g", "a", "i", "n", " ", "l", "a", "t", "e", "r", ".">>

TRUNCATION_MARKER ==
    <<"\n", "[", ".", ".", ".", "t", "r", "u", "n", "c", "a", "t", "e", "d", "]">>

(* ------------------------------------------------------------------ *)
(* State                                                               *)
(* ------------------------------------------------------------------ *)

VARIABLES
    now,              \* time.time(), in seconds
    recent_messages,  \* dict: from_number -> [hash, time]            (line 33)
    send_timers,      \* dict: from_number -> Timer (the id of its creator) (line 37)
    pending_replies,  \* dict: from_number -> reply text               (line 38)
    user_contexts,    \* defaultdict(list): from_number -> list of turns (line 41)
    tasks,            \* the Thread objects started at line 86, in start order
    timers,           \* the Timer objects created at line 112, by creator task
    sms,              \* the calls of send_sms, in order: <<to_number, message>>
    http,             \* the last request handled and the response returned
    handlers,         \* the threads running `incoming` past line 69, in arrival order
    appended,         \* history: per sender, every turn ever appended and the task
                      \* that appended it, in order
    stored            \* history: per sender, the tasks that executed line 105, in order

vars == <<handlers, now, recent_messages, send_timers, pending_replies, user_contexts,
          tasks, timers, sms, http, appended, stored>>

\* The per-sender state the handler, the workers and the timers share.
shared == <<recent_messages, send_timers, pending_replies, user_contexts,
            tasks, timers, sms>>

Init ==
    /\ handlers = <<>>
    /\ now = 0
    /\ recent_messages = EmptyDict
    /\ send_timers = EmptyDict
    /\ pending_replies = EmptyDict
    /\ user_contexts = EmptyDict
    /\ tasks = <<>>
    /\ timers = EmptyDict
    /\ sms = <<>>
    /\ http = [data |-> EmptyDict, status |-> 0, body |-> ""]
    /\ appended = EmptyDict
    /\ stored = EmptyDict

(* ------------------------------------------------------------------ *)
(* incoming (lines 46-88)                                              *)
(* ------------------------------------------------------------------ *)

\* Mutant of Unauthorized: the allow-list is not consulted.
UnauthorizedIfMissing(from_number) == ~Truthy(from_number)

\* line 63: `not from_number or from_number not in WHITELIST`
Unauthorized(from_number) == ~Truthy(from_number) \/ from_number \notin WHITELIST

\* Mutant of HasTrigger: the test is inverted.
HasTriggerInverted(content) == ~StartsWith(Lower(Strip(content)), Lower(TRIGGER_PREFIX))

\* line 67: `content.strip().lower().startswith(TRIGGER_PREFIX.lower())`
HasTrigger(content) == StartsWith(Lower(Strip(content)), Lower(TRIGGER_PREFIX))

\* Mutant of MsgHash: the digest is taken of the trimmed text.
MsgHashOfTrimmed(content) == Sha256Hex(Encode(Strip(content)))

\* Mutant of MsgHash: every text has the same digest.
MsgHashOfNothing(content) == Sha256Hex(<<>>)

\* line 72
MsgHash(content) == Sha256Hex(Encode(content))

\* line 73: `recent_messages.get(from_number, (None, 0))`; -1 is no digest.
LastMessage(from_number) == Get(recent_messages, from_number, [hash |-> -1, time |-> 0])

\* Mutant of IsDuplicate: the window includes its last instant.
IsDuplicateInclusive(msg_hash, last, t) ==
    msg_hash = last.hash /\ t - last.time <= REPEAT_TIMEOUT

\* line 75: `msg_hash == last_hash and time.time() - last_time < REPEAT_TIMEOUT`
IsDuplicate(msg_hash, last, t) == msg_hash = last.hash /\ t - last.time < REPEAT_TIMEOUT

\* line 82: `content[len(TRIGGER_PREFIX):].strip()`
PromptOf(content) == Strip(SliceFrom(content, Len(TRIGGER_PREFIX)))

\* A Thread(target=process_prompt_with_delay, args=(from_number, prompt)) about
\* to run its first statement.  reply, sl and tm are locals of the thread;
\* failed records that the Inference Gateway call failed, at86 whether a timer
\* of the sender had fired when the thread was started, and at105 what the
\* thread saw, and the time, when it executed line 105.
NewTask(from_number, prompt) ==
    [from_number |-> from_number, prompt |-> prompt, pc |-> "L133",
     reply |-> None, failed |-> FALSE, sl |-> <<>>, tm |-> 0,
     at86 |-> [fired |-> \E m \in DOMAIN timers :
                           /\ timers[m].from_number = from_number
                           /\ timers[m].state \in {"L119", "L120", "L122", "exited"}],
     at105 |-> [alone |-> FALSE, live |-> {}, fired |-> FALSE, time |-> 0]]

Respond(data, status, body) == http' = [data |-> data, status |-> status, body |-> body]

\* The handler run from line 51 to its return with no other handler in
\* between: a request handled after the one before it has returned.
incoming(data) ==
    LET from_number == Get(data, "from_number", None)
        content == Get(data, "content", <<>>)
        msg_hash == MsgHash(content)
        last == LastMessage(from_number)
    IN  /\ UNCHANGED <<handlers, now, send_timers, pending_replies, user_contexts, timers, sms,
                       appended, stored>>
        /\ IF data = EmptyDict
           THEN Respond(data, 400, "Bad Request")
                /\ UNCHANGED <<recent_messages, tasks>>
           ELSE IF Unauthorized(from_number)
           THEN Respond(data, 403, "Unauthorized")
                /\ UNCHANGED <<recent_messages, tasks>>
           ELSE IF ~HasTrigger(content)
           THEN Respond(data, 200, "Ignored")
                /\ UNCHANGED <<recent_messages, tasks>>
           ELSE IF IsDuplicate(msg_hash, last, now)
           THEN Respond(data, 200, "Duplicate ignored")
                /\ UNCHANGED <<recent_messages, tasks>>
           ELSE /\ recent_messages' =
                       Put(recent_messages, from_number, [hash |-> msg_hash, time |-> now])
                /\ tasks' = Append(tasks, NewTask(from_number, PromptOf(content)))
                /\ Respond(data, 200, "OK")

\* The handler as a thread of its own, for requests handled concurrently (the
\* server runs each request in a thread).  Lines 51-69 read no shared state;
\* from line 72 on every access to recent_messages or the clock is one step.
\* last is the local pair (last_hash, last_time) of line 73.
NewHandler(data) ==
    [data |-> data, msg_hash |-> MsgHash(Get(data, "content", <<>>)),
     last |-> [hash |-> -1, time |-> 0], pc |-> "L73"]

\* lines 51-72: the request is answered at once (400, 403, "Ignored") or the
\* handler goes on to the dedup check.
Receive(data) ==
    LET from_number == Get(data, "from_number", None)
        content == Get(data, "content", <<>>)
    IN  /\ UNCHANGED <<now, recent_messages, send_timers, pending_replies, user_contexts,
                       tasks, timers, sms, appended, stored>>
        /\ IF data = EmptyDict
           THEN Respond(data, 400, "Bad Request") /\ UNCHANGED handlers
           ELSE IF Unauthorized(from_number)
           THEN Respond(data, 403, "Unauthorized") /\ UNCHANGED handlers
           ELSE IF ~HasTrigger(content)
           THEN Respond(data, 200, "Ignored") /\ UNCHANGED handlers
           ELSE handlers' = Append(handlers, NewHandler(data)) /\ UNCHANGED http

SetHandler(h, rec) == handlers' = [handlers EXCEPT ![h] = rec]

\* line 73: `last_hash, last_time = recent_messages.get(from_number, (None, 0))`
H73(h) ==
    LET self == handlers[h]
    IN  /\ SetHandler(h, [self EXCEPT !.pc = "L75",
                                      !.last = LastMessage(self.data["from_number"])])
        /\ UNCHANGED <<now, recent_messages, send_timers, pending_replies, user_contexts,
                       tasks, timers, sms, http, appended, stored>>

\* lines 75-77: the comparison, with the clock read now.
H75(h) ==
    LET self == handlers[h]
    IN  /\ IF IsDuplicate(self.msg_hash, self.last, now)
           THEN /\ SetHandler(h, [self EXCEPT !.pc = "returned"])
                /\ Respond(self.data, 200, "Duplicate ignored")
           ELSE /\ SetHandler(h, [self EXCEPT !.pc = "L80"])
                /\ UNCHANGED http
        /\ UNCHANGED <<now, recent_messages, send_timers, pending_replies, user_contexts,
                       tasks, timers, sms, appended, stored>>

\* line 80: `recent_messages[from_number] = (msg_hash, time.time())`
H80(h) ==
    LET self == handlers[h]
    IN  /\ recent_messages' = Put(recent_messages, self.data["from_number"],
                                  [hash |-> self.msg_hash, time |-> now])
        /\ SetHandler(h, [self EXCEPT !.pc = "L86"])
        /\ UNCHANGED <<now, send_timers, pending_replies, user_contexts,
                       tasks, timers, sms, http, appended, stored>>

\* lines 82-88: start the thread and return "OK".
H86(h) ==
    LET self == handlers[h]
    IN  /\ tasks' = Append(tasks, NewTask(self.data["from_number"],
                                          PromptOf(self.data["content"])))
        /\ SetHandler(h, [self EXCEPT !.pc = "returned"])
        /\ Respond(self.data, 200, "OK")
        /\ UNCHANGED <<now, recent_messages, send_timers, pending_replies, user_contexts,
                       timers, sms, appended, stored>>

\* One step of handler thread h.
incoming_step(h) ==
    CASE handlers[h].pc = "L73" -> H73(h)
      [] handlers[h].pc = "L75" -> H75(h)
      [] handlers[h].pc = "L80" -> H80(h)
      [] handlers[h].pc = "L86" -> H86(h)
      [] OTHER -> FALSE

(* ------------------------------------------------------------------ *)
(* process_prompt_with_delay and get_huggingface_response (lines 97-178) *)
(* ------------------------------------------------------------------ *)

Turn(role, content) == [role |-> role, content |-> content]

\* s.split(sep)[-1]: what follows the last occurrence of sep, or s itself.
AfterLast(s, sep) ==
    LET at == {i \in 1..Len(s) : i + Len(sep) - 1 <= Len(s)
                                 /\ SubSeq(s, i, i + Len(sep) - 1) = sep}
    IN  IF at = {} THEN s ELSE SubSeq(s, Max(at) + Len(sep), Len(s))

ASSISTANT_TAG == <<"A", "s", "s", "i", "s", "t", "a", "n", "t", ":">>

\* lines 163/165: `generated_text.split("Assistant:")[-1].strip()`
ReplyOf(generated_text) == Strip(AfterLast(generated_text, ASSISTANT_TAG))

\* Mutant of Truncated: the text is cut and no marker is appended.
TruncatedWithoutMarker(reply) == SliceTo(reply, MAX_SMS_CHARS)

\* lines 172-174
Truncated(reply) ==
    IF Len(reply) > MAX_SMS_CHARS
    THEN SliceTo(reply, MAX_SMS_CHARS) \o TRUNCATION_MARKER
    ELSE reply

\* A Timer(2.0, send_pending_reply, args=(from_number,)) not yet started.
\* finished is the Event that cancel() sets; reply is the callback's local.
NewTimer(from_number) ==
    [from_number |-> from_number, state |-> "new", finished |-> FALSE,
     started_at |-> 0, reply |-> None]

\* A started timer that is neither cancelled nor fired.
Live(m) == timers[m].state = "waiting" /\ ~timers[m].finished

\* A timer whose callback has been entered.
Fired(m) == timers[m].state \in {"L119", "L120", "L122", "exited"}

TimersOf(from_number) == {m \in DOMAIN timers : timers[m].from_number = from_number}
TasksOf(from_number) == {t \in DOMAIN tasks : tasks[t].from_number = from_number}

SetTask(t, rec) == tasks' = [tasks EXCEPT ![t] = rec]

\* line 133: `user_contexts[from_number].append({"role": "user", ...})`
AppendTurn(ctx, from_number, turn) ==
    Put(ctx, from_number, Append(Get(ctx, from_number, <<>>), turn))

L133(t) ==
    LET self == tasks[t]
        turn == Turn("user", self.prompt)
    IN  /\ user_contexts' = AppendTurn(user_contexts, self.from_number, turn)
        /\ appended' = AppendTurn(appended, self.from_number, [turn |-> turn, by |-> t])
        /\ SetTask(t, [self EXCEPT !.pc = "L136"])
        /\ UNCHANGED <<handlers, now, recent_messages, send_timers, pending_replies, timers,
                       sms, http, stored>>

\* line 136: `if len(user_contexts[from_number]) > MAX_CONTEXT_LEN`
TooLong(history) == Len(history) > MAX_CONTEXT_LEN

L136(t) ==
    LET self == tasks[t]
    IN  /\ user_contexts' = Put(user_contexts, self.from_number,
                                Get(user_contexts, self.from_number, <<>>))
        /\ SetTask(t, [self EXCEPT !.pc =
               IF TooLong(user_contexts'[self.from_number]) THEN "L137" ELSE "L158"])
        /\ UNCHANGED <<handlers, now, recent_messages, send_timers, pending_replies, timers,
                       sms, http, appended, stored>>

\* line 137, right-hand side: `user_contexts[from_number][-MAX_CONTEXT_LEN:]`
L137(t) ==
    LET self == tasks[t]
    IN  /\ user_contexts' = Put(user_contexts, self.from_number,
                                Get(user_contexts, self.from_number, <<>>))
        /\ SetTask(t, [self EXCEPT !.pc = "L137s",
               !.sl = LastN(user_contexts'[self.from_number], MAX_CONTEXT_LEN)])
        /\ UNCHANGED <<handlers, now, recent_messages, send_timers, pending_replies, timers,
                       sms, http, appended, stored>>

\* line 137, the assignment `user_contexts[from_number] = ...`
L137s(t) ==
    LET self == tasks[t]
    IN  /\ user_contexts' = Put(user_contexts, self.from_number, self.sl)
        /\ SetTask(t, [self EXCEPT !.pc = "L158", !.sl = <<>>])
        /\ UNCHANGED <<handlers, now, recent_messages, send_timers, pending_replies, timers,
                       sms, http, appended, stored>>

\* lines 158-167 and 176-178, and the except clause of lines 100-102: the
\* Inference Gateway answers 200 with a generated text, answers another
\* status, or the call raises.
\* Mutant of AfterFailure: the failure falls through to the append of line 170.
AfterFailureFallsThrough(self, apology) ==
    [self EXCEPT !.pc = "L170", !.reply = apology, !.failed = TRUE]

\* The thread after a failed call: get_huggingface_response returns (line 178)
\* or raises into the except clause (line 102), and line 105 is next.
AfterFailure(self, apology) ==
    [self EXCEPT !.pc = "L105", !.reply = apology, !.failed = TRUE]

L158(t, outcome) ==
    LET self == tasks[t]
    IN  /\ SetTask(t,
               CASE outcome.kind = "ok" ->
                        [self EXCEPT !.pc = "L170", !.reply = ReplyOf(outcome.text)]
                 [] outcome.kind = "status" -> AfterFailure(self, API_ERROR_REPLY)
                 [] outcome.kind = "raise" -> AfterFailure(self, UNAVAILABLE_REPLY))
        /\ UNCHANGED <<handlers, now, recent_messages, send_timers, pending_replies,
                       user_contexts, timers, sms, http, appended, stored>>

\* lines 170-175: append the assistant turn, then truncate the local reply.
L170(t) ==
    LET self == tasks[t]
        turn == Turn("assistant", self.reply)
    IN  /\ user_contexts' = AppendTurn(user_contexts, self.from_number, turn)
        /\ appended' = AppendTurn(appended, self.from_number, [turn |-> turn, by |-> t])
        /\ SetTask(t, [self EXCEPT !.pc = "L105", !.reply = Truncated(self.reply)])
        /\ UNCHANGED <<handlers, now, recent_messages, send_timers, pending_replies, timers,
                       sms, http, stored>>

\* Mutant of StorePending: a reply already pending is kept (setdefault).
StorePendingIfAbsent(pending, from_number, reply) ==
    IF from_number \in DOMAIN pending THEN pending ELSE Put(pending, from_number, reply)

\* line 105: `pending_replies[from_number] = reply`
StorePending(pending, from_number, reply) == Put(pending, from_number, reply)

L105(t) ==
    LET self == tasks[t]
        s == self.from_number
        before == Get(stored, s, <<>>)
    IN  /\ pending_replies' = StorePending(pending_replies, s, self.reply)
        /\ stored' = Put(stored, s, Append(before, t))
        /\ SetTask(t, [self EXCEPT !.pc = "L108",
               !.at105 = [alone |-> \A i \in 1..Len(before) : tasks[before[i]].pc = "done",
                          live |-> {m \in TimersOf(s) :
                                      Live(m) /\ now < timers[m].started_at + TIMER_INTERVAL},
                          fired |-> \E m \in TimersOf(s) : Fired(m),
                          time |-> now]])
        /\ UNCHANGED <<handlers, now, recent_messages, send_timers, user_contexts, timers,
                       sms, http, appended>>

\* line 108: `if from_number in send_timers`
L108(t) ==
    LET self == tasks[t]
    IN  /\ SetTask(t, [self EXCEPT !.pc =
               IF self.from_number \in DOMAIN send_timers THEN "L109" ELSE "L112"])
        /\ UNCHANGED <<handlers, now, recent_messages, send_timers, pending_replies,
                       user_contexts, timers, sms, http, appended, stored>>

\* line 109, the lookup `send_timers[from_number]`: a KeyError ends the thread.
L109(t) ==
    LET self == tasks[t]
    IN  /\ SetTask(t,
               IF self.from_number \in DOMAIN send_timers
               THEN [self EXCEPT !.pc = "L109c", !.tm = send_timers[self.from_number]]
               ELSE [self EXCEPT !.pc = "KeyError"])
        /\ UNCHANGED <<handlers, now, recent_messages, send_timers, pending_replies,
                       user_contexts, timers, sms, http, appended, stored>>

\* line 109, `.cancel()`: sets the timer's finished event.
Cancel(timer) == [timer EXCEPT !.finished = TRUE]

L109c(t) ==
    LET self == tasks[t]
    IN  /\ timers' = [timers EXCEPT ![self.tm] = Cancel(timers[self.tm])]
        /\ SetTask(t, [self EXCEPT !.pc = "L112", !.tm = 0])
        /\ UNCHANGED <<handlers, now, recent_messages, send_timers, pending_replies,
                       user_contexts, sms, http, appended, stored>>

\* lines 112-113: create the timer and store it in send_timers.
L112(t) ==
    LET self == tasks[t]
    IN  /\ timers' = Put(timers, t, NewTimer(self.from_number))
        /\ send_timers' = Put(send_timers, self.from_number, t)
        /\ SetTask(t, [self EXCEPT !.pc = "L114"])
        /\ UNCHANGED <<handlers, now, recent_messages, pending_replies, user_contexts,
                       sms, http, appended, stored>>

\* line 114: `timer.start()`
L114(t) ==
    LET self == tasks[t]
    IN  /\ timers' = [timers EXCEPT ![t].state = "waiting", ![t].started_at = now]
        /\ SetTask(t, [self EXCEPT !.pc = "done"])
        /\ UNCHANGED <<handlers, now, recent_messages, send_timers, pending_replies,
                       user_contexts, sms, http, appended, stored>>

\* One step of worker thread t; the Inference Gateway's answer is drawn from
\* outcomes when the step is the call of line 158.
process_prompt_with_delay(t, outcomes) ==
    CASE tasks[t].pc = "L133" -> L133(t)
      [] tasks[t].pc = "L136" -> L136(t)
      [] tasks[t].pc = "L137" -> L137(t)
      [] tasks[t].pc = "L137s" -> L137s(t)
      [] tasks[t].pc = "L158" -> \E outcome \in outcomes : L158(t, outcome)
      [] tasks[t].pc = "L170" -> L170(t)
      [] tasks[t].pc = "L105" -> L105(t)
      [] tasks[t].pc = "L108" -> L108(t)
      [] tasks[t].pc = "L109" -> L109(t)
      [] tasks[t].pc = "L109c" -> L109c(t)
      [] tasks[t].pc = "L112" -> L112(t)
      [] tasks[t].pc = "L114" -> L114(t)
      [] OTHER -> FALSE

(* ------------------------------------------------------------------ *)
(* The Timer thread and send_pending_reply (lines 117-123, 181-193)    *)
(* ------------------------------------------------------------------ *)

\* threading.Timer.run: after the interval, if cancel() has not set the
\* finished event, the callback is entered.
Expired(m) == now >= timers[m].started_at + TIMER_INTERVAL

TimerRun(m) ==
    /\ Live(m)
    /\ Expired(m)
    /\ timers' = [timers EXCEPT ![m].state = "L119"]
    /\ UNCHANGED <<handlers, now, recent_messages, send_timers, pending_replies, user_contexts,
                   tasks, sms, http, appended, stored>>

\* Mutant of TakePending: the slots of all senders are emptied (clear for pop).
TakePendingClears(pending, from_number) == EmptyDict

\* Mutant of TakePending: the reply is read and left in place (get for pop).
TakePendingKeeps(pending, from_number) == pending

\* line 119: `reply = pending_replies.pop(from_number, None)`
TakePending(pending, from_number) == Pop(pending, from_number)

T119(m) ==
    LET s == timers[m].from_number
    IN  /\ timers' = [timers EXCEPT ![m].state = "L120",
                                    ![m].reply = Get(pending_replies, s, None)]
        /\ pending_replies' = TakePending(pending_replies, s)
        /\ UNCHANGED <<handlers, now, recent_messages, send_timers, user_contexts,
                       tasks, sms, http, appended, stored>>

\* line 120: `send_timers.pop(from_number, None)`
T120(m) ==
    /\ timers' = [timers EXCEPT ![m].state = "L122"]
    /\ send_timers' = Pop(send_timers, timers[m].from_number)
    /\ UNCHANGED <<handlers, now, recent_messages, pending_replies, user_contexts,
                   tasks, sms, http, appended, stored>>

\* send_sms(to_number, message): one request to the Notification Gateway.
send_sms(to_number, message) == sms' = Append(sms, <<to_number, message>>)

\* lines 122-123: `if reply: send_sms(from_number, reply)`; then run() sets
\* the finished event and the thread ends.
T122(m) ==
    /\ timers' = [timers EXCEPT ![m].state = "exited", ![m].finished = TRUE,
                                ![m].reply = None]
    /\ IF Truthy(timers[m].reply)
       THEN send_sms(timers[m].from_number, timers[m].reply)
       ELSE UNCHANGED sms
    /\ UNCHANGED <<handlers, now, recent_messages, send_timers, pending_replies, user_contexts,
                   tasks, http, appended, stored>>

\* One step of the callback of timer m.
send_pending_reply(m) ==
    CASE timers[m].state = "L119" -> T119(m)
      [] timers[m].state = "L120" -> T120(m)
      [] timers[m].state = "L122" -> T122(m)
      [] OTHER -> FALSE

\* Time passes.
Tick(d, horizon) ==
    /\ now + d <= horizon
    /\ now' = now + d
    /\ UNCHANGED <<handlers, recent_messages, send_timers, pending_replies, user_contexts,
                   tasks, timers, sms, http, appended, stored>>

(* ------------------------------------------------------------------ *)
(* Inputs and specifications                                           *)
(* ------------------------------------------------------------------ *)

Req(from_number, content) ==
    [k \in {"from_number", "content"} |-> IF k = "from_number" THEN from_number ELSE content]
ReqNoNumber(content) == [k \in {"content"} |-> content]
ReqNoContent(from_number) == [k \in {"from_number"} |-> from_number]

ChatA == <<"C", "h", "a", "t", " ", "A">>
ChatB == <<"C", "h", "a", "t", " ", "B">>
ChatLower == <<"c", "h", "a", "t", " ", "h", "i">>
ChatPadded == <<" ", "C", "h", "a", "t", " ", "h", "e", "l", "l", "o", " ">>
NoTrigger == <<"h", "e", "l", "l", "o">>

Ok(text) == [kind |-> "ok", text |-> text]
HiThere == <<"A", "s", "s", "i", "s", "t", "a", "n", "t", ":", " ", "h", "i", " ",
             "t", "h", "e", "r", "e">>
Yes == <<"y", "e", "s">>
Blank == <<"A", "s", "s", "i", "s", "t", "a", "n", "t", ":", " ">>

Idle == \A t \in DOMAIN tasks : tasks[t].pc \in {"done", "KeyError"}

\* The bounds of the model: the horizon of the clock in the specification of
\* the reply coalescer (Spec); the worker threads started in the
\* specification of the intake handler (SpecIntake) and the seconds past
\* REPEAT_TIMEOUT its clock runs; the worker threads started in the
\* specification of the conversation store (SpecCtx).
MaxTime == 3
MaxTasks == 2
MaxSlack == 1
MaxCtxTasks == 6

(* Spec: the reply coalescer, on the scenario of two messages of one sender:
   "Chat A", then "Chat B" at any later moment; workers and timers interleave
   freely and the Inference Gateway gives every kind of answer. *)
Workload == <<Req(Sender1, ChatA), Req(Sender1, ChatB)>>

Outcomes == {Ok(HiThere), Ok(Blank), [kind |-> "status"], [kind |-> "raise"]}

Next ==
    \/ Len(tasks) < Len(Workload) /\ incoming(Workload[Len(tasks) + 1])
    \/ \E t \in DOMAIN tasks : process_prompt_with_delay(t, Outcomes)
    \/ \E m \in DOMAIN timers : TimerRun(m)
    \/ \E m \in DOMAIN timers : send_pending_reply(m)
    \/ Tick(1, MaxTime)

Spec == Init /\ [][Next]_vars

(* SpecIntake: the handler.  Every kind of request, over a clock that jumps
   to the last second of the suppression window and to the first second past
   it; a request arrives when no worker is running. *)
IntakeRequests ==
    {EmptyDict, ReqNoNumber(ChatA), Req(<<>>, ChatA), Req(Stranger, ChatA),
     ReqNoContent(Sender1), Req(Sender1, NoTrigger), Req(Sender1, ChatA),
     Req(Sender1, ChatPadded), Req(Sender2, ChatLower)}

IntakeOutcomes == {Ok(HiThere)}

NextIntake ==
    \/ \E data \in IntakeRequests : Len(tasks) < MaxTasks /\ Idle /\ incoming(data)
    \/ \E t \in DOMAIN tasks : process_prompt_with_delay(t, IntakeOutcomes)
    \/ \E m \in DOMAIN timers : TimerRun(m)
    \/ \E m \in DOMAIN timers : send_pending_reply(m)
    \/ \E d \in {REPEAT_TIMEOUT - 1, REPEAT_TIMEOUT} : Tick(d, REPEAT_TIMEOUT + MaxSlack)

SpecIntake == Init /\ [][NextIntake]_vars

(* SpecCtx: the conversation store.  One sender alternating two bodies, each
   request arriving when no worker is running, enough of them to fill the
   history.  No time passes, so the timers the workers arm are replaced one
   by the next and none fires: send_pending_reply never touches the history. *)
CtxRequests == {Req(Sender1, ChatA), Req(Sender1, ChatB)}

CtxOutcomes == {Ok(Yes), [kind |-> "status"], [kind |-> "raise"]}

NextCtx ==
    \/ \E data \in CtxRequests : Len(tasks) < MaxCtxTasks /\ Idle /\ incoming(data)
    \/ \E t \in DOMAIN tasks : process_prompt_with_delay(t, CtxOutcomes)

SpecCtx == Init /\ [][NextCtx]_vars

(* SpecSms: the length limit of outbound texts.  One message of each of two
   senders, the second arriving when the first one's worker has ended; the
   Inference Gateway generates a text longer than MAX_SMS_CHARS by MaxExcess
   characters, a text of exactly MAX_SMS_CHARS characters, or a short text;
   the clock advances by the timer's interval. *)
MaxExcess == 1

LongText == [i \in 1..(MAX_SMS_CHARS + MaxExcess) |-> "x"]
FullText == [i \in 1..MAX_SMS_CHARS |-> "x"]

SmsRequests == {Req(Sender1, ChatA), Req(Sender2, ChatB)}

SmsOutcomes == {Ok(LongText), Ok(FullText), Ok(HiThere)}

NextSms ==
    \/ \E data \in SmsRequests :
          TasksOf(data["from_number"]) = {} /\ Idle /\ incoming(data)
    \/ \E t \in DOMAIN tasks : process_prompt_with_delay(t, SmsOutcomes)
    \/ \E m \in DOMAIN timers : TimerRun(m)
    \/ \E m \in DOMAIN timers : send_pending_reply(m)
    \/ Tick(TIMER_INTERVAL, MaxTime)

SpecSms == Init /\ [][NextSms]_vars

(* SpecRace: the conversation store under concurrent workers.  One sender
   alternating two bodies; while the history is filling up a request arrives
   when no worker is running, and once it holds MAX_CONTEXT_LEN turns a
   request may arrive while workers of earlier ones are still running, at
   most MaxRunning workers at a time.  No time passes, so no timer fires. *)
MaxRunning == 2
MaxRaceTasks == 7

Running == {t \in DOMAIN tasks : tasks[t].pc \notin {"done", "KeyError"}}

HistoryFull == \E s \in DOMAIN user_contexts : Len(user_contexts[s]) >= MAX_CONTEXT_LEN

RaceOutcomes == {Ok(Yes)}

NextRace ==
    \/ \E data \in CtxRequests :
          /\ Len(tasks) < MaxRaceTasks
          /\ Idle \/ (HistoryFull /\ Cardinality(Running) < MaxRunning)
          /\ incoming(data)
    \/ \E t \in DOMAIN tasks : process_prompt_with_delay(t, RaceOutcomes)

SpecRace == Init /\ [][NextRace]_vars

(* SpecDedup: the dedup check under concurrent handlers.  Each sender sends
   one body again and again, MaxRequests requests in all, any number of them
   in flight at a time, within the first MaxTime seconds. *)
MaxRequests == 3

DedupRequests == {Req(Sender1, ChatA), Req(Sender2, ChatB)}

NextDedup ==
    \/ \E data \in DedupRequests : Len(handlers) < MaxRequests /\ Receive(data)
    \/ \E h \in DOMAIN handlers : incoming_step(h)
    \/ Tick(1, MaxTime)

SpecDedup == Init /\ [][NextDedup]_vars

(* SpecPair: two senders at once.  One message of each, handled by
   concurrent handlers, workers and timers; the Inference Gateway answers
   with one of two texts or fails. *)
PairWorkload == <<Req(Sender1, ChatA), Req(Sender2, ChatB)>>

PairOutcomes == {Ok(HiThere), Ok(Yes), [kind |-> "raise"]}

NextPair ==
    \/ Len(handlers) < Len(PairWorkload) /\ Receive(PairWorkload[Len(handlers) + 1])
    \/ \E h \in DOMAIN handlers : incoming_step(h)
    \/ \E t \in DOMAIN tasks : process_prompt_with_delay(t, PairOutcomes)
    \/ \E m \in DOMAIN timers : TimerRun(m)
    \/ \E m \in DOMAIN timers : send_pending_reply(m)
    \/ Tick(1, MaxTime)

SpecPair == Init /\ [][NextPair]_vars

(* ------------------------------------------------------------------ *)
(* Vocabulary of the properties                                        *)
(* ------------------------------------------------------------------ *)

\* The texts handed to the Notification Gateway for a sender, in order.
Delivered(s) ==
    LET mine == SelectSeq(sms, LAMBDA call : call[1] = s)
    IN  [i \in 1..Len(mine) |-> mine[i][2]]

\* Nothing is running or armed for the sender: every worker has ended
\* (normally, or with the KeyError of line 109) and every timer has been
\* cancelled or has run its callback to the end.
Quiescent(s) ==
    /\ \A t \in TasksOf(s) : tasks[t].pc \in {"done", "KeyError"}
    /\ \A m \in TimersOf(s) :
          \/ timers[m].state = "exited"
          \/ timers[m].state = "waiting" /\ timers[m].finished

\* The tasks of a sender that have executed line 105, in order.
Stored(s) == Get(stored, s, <<>>)

\* The turns ever appended for a sender, in order.
Appended(s) ==
    LET log == Get(appended, s, <<>>)
    IN  [i \in 1..Len(log) |-> log[i].turn]

Apologies == {API_ERROR_REPLY, UNAVAILABLE_REPLY}

\* A step of the handler: it returns a response, and may start a thread.
Handled == http' # http \/ Len(tasks') # Len(tasks)

ContentOf(data) == Get(data, "content", <<>>)

(* ------------------------------------------------------------------ *)
(* C1                                                                  *)
(* ------------------------------------------------------------------ *)

\* C1 (as claimed): whenever no worker of a sender is between its append and
\* its trim (lines 133-137), the sender's history holds at most
\* MAX_CONTEXT_LEN turns, and they are the most recent MAX_CONTEXT_LEN turns
\* appended, in order.
C1_HistoryBounded ==
    \A s \in DOMAIN user_contexts :
        (\A t \in TasksOf(s) : tasks[t].pc \notin {"L136", "L137", "L137s"})
        => /\ Len(user_contexts[s]) <= MAX_CONTEXT_LEN
           /\ user_contexts[s] = LastN(Appended(s), MAX_CONTEXT_LEN)

(* ------------------------------------------------------------------ *)
(* C2                                                                  *)
(* ------------------------------------------------------------------ *)

\* Two workers ran for the sender and nothing is left running or armed.
TwoTasksSettled(s) ==
    /\ Quiescent(s)
    /\ Cardinality(TasksOf(s)) = 2
    /\ Len(Stored(s)) = 2

TwoRunsInOneDelay(s) ==
    /\ TwoTasksSettled(s)
    /\ tasks[Stored(s)[2]].at105.alone
    /\ Stored(s)[1] \in tasks[Stored(s)[2]].at105.live

\* C3 (as claimed): if lines 105-114 run twice for a sender, the second run
\* starting after the first completed and before the first timer's delay
\* elapsed, exactly one text is delivered, the one stored by the second run.
C3_SecondTextDelivered ==
    \A s \in WHITELIST :
        TwoRunsInOneDelay(s) => Delivered(s) = <<tasks[Stored(s)[2]].reply>>

\* C3 (amended): in that case exactly one text is delivered, the one stored
\* by the second run, provided that text is not empty; when it is empty,
\* nothing is delivered.
C3_SecondTextDeliveredIfNotEmpty ==
    \A s \in WHITELIST :
        TwoRunsInOneDelay(s)
        => Delivered(s) = IF Truthy(tasks[Stored(s)[2]].reply)
                          THEN <<tasks[Stored(s)[2]].reply>>
                          ELSE <<>>

\* C3 witness: the second run stored a non-empty text other than the first
\* run's within the first timer's delay, and that text alone was delivered.
C3_Witness ==
    \E s \in WHITELIST :
        /\ TwoRunsInOneDelay(s)
        /\ Truthy(tasks[Stored(s)[2]].reply)
        /\ tasks[Stored(s)[1]].reply # tasks[Stored(s)[2]].reply
        /\ Delivered(s) = <<tasks[Stored(s)[2]].reply>>

(* ------------------------------------------------------------------ *)
(* C4                                                                  *)
(* ------------------------------------------------------------------ *)

\* C4 (as claimed): in every reachable state a sender has at most one live
\* timer (started, not cancelled, not yet fired).
C4_AtMostOneLiveTimer ==
    \A s \in WHITELIST : Cardinality({m \in TimersOf(s) : Live(m)}) <= 1

(* ------------------------------------------------------------------ *)
(* C6                                                                  *)
(* ------------------------------------------------------------------ *)

\* C6 (as claimed): a pending reply is eventually handed to the Notification
\* Gateway; so once nothing is running or armed for a sender, no reply of
\* that sender is left in the pending slot.
C6_NoReplyLeftBehind ==
    \A s \in WHITELIST : Quiescent(s) => s \notin DOMAIN pending_replies

(* ------------------------------------------------------------------ *)
(* C5, C7, C8, C9: the handler                                         *)
(* ------------------------------------------------------------------ *)

SenderOf(data) == Get(data, "from_number", None)

\* A dedup record exists for the sender of the request with the digest of its
\* body, observed less than REPEAT_TIMEOUT seconds ago.
RecentRepeat(data) ==
    /\ SenderOf(data) \in DOMAIN recent_messages
    /\ recent_messages[SenderOf(data)].hash = Sha256Hex(Encode(ContentOf(data)))
    /\ now - recent_messages[SenderOf(data)].time < REPEAT_TIMEOUT

\* The text begins with the trigger token, letter case ignored.
BeginsWithToken(text) == StartsWith(Lower(text), Lower(TRIGGER_PREFIX))

\* C5: a request from an allow-listed sender whose text passes the trigger
\* filter is rejected as a duplicate, starting no thread, exactly when a
\* dedup record of the sender has the same digest and is less than
\* REPEAT_TIMEOUT seconds old; otherwise it starts exactly one thread.
C5_DuplicateIffRecentRepeat ==
    [][(Handled /\ SenderOf(http'.data) \in WHITELIST
                /\ BeginsWithToken(Strip(ContentOf(http'.data))))
       => /\ (http'.body = "Duplicate ignored") <=> RecentRepeat(http'.data)
          /\ RecentRepeat(http'.data) => tasks' = tasks
          /\ ~RecentRepeat(http'.data) =>
                 /\ Len(tasks') = Len(tasks) + 1
                 /\ http'.body = "OK"]_vars

\* C5 witness: the same body of the same sender started a second thread once
\* the window had elapsed since its admission.
C5_Witness ==
    /\ Len(tasks) = 2
    /\ tasks[1].from_number = tasks[2].from_number
    /\ tasks[1].prompt = tasks[2].prompt
    /\ http.body = "OK"
    /\ now - REPEAT_TIMEOUT >= 0

\* The sender identity is missing from the request or is not allow-listed.
SenderMissingOrUnlisted(data) ==
    "from_number" \notin DOMAIN data \/ data["from_number"] \notin WHITELIST

\* C7 (as claimed): every request whose sender identity is missing or not
\* allow-listed is answered 403 and changes none of the shared state.
C7_UnlistedGets403 ==
    [][(Handled /\ SenderMissingOrUnlisted(http'.data))
       => (http'.status = 403 /\ UNCHANGED shared)]_vars

\* C7 (amended): every request with a non-empty payload whose sender identity
\* is missing or not allow-listed is answered 403, a request with an empty
\* payload is answered 400, and neither changes any of the shared state.
C7_UnlistedGets403UnlessEmpty ==
    [][(Handled /\ SenderMissingOrUnlisted(http'.data))
       => /\ http'.status = IF http'.data = EmptyDict THEN 400 ELSE 403
          /\ UNCHANGED shared]_vars

\* C7 witness: a stranger's request was answered 403 while a dedup record, a
\* history and a worker thread of another sender existed.
C7_Witness ==
    /\ http.status = 403
    /\ SenderOf(http.data) = Stranger
    /\ tasks # <<>>
    /\ DOMAIN recent_messages # {}
    /\ DOMAIN user_contexts # {}

\* C8 (as claimed): a request of an allow-listed sender whose text does not
\* begin with the trigger token (letter case ignored) is answered 200
\* "Ignored" and changes none of the shared state.
C8_NoTokenIgnored ==
    [][(Handled /\ SenderOf(http'.data) \in WHITELIST
                /\ ~BeginsWithToken(ContentOf(http'.data)))
       => (http'.status = 200 /\ http'.body = "Ignored" /\ UNCHANGED shared)]_vars

\* C8 (amended): a request of an allow-listed sender whose text, with the
\* surrounding whitespace trimmed, does not begin with the trigger token
\* (letter case ignored) is answered 200 "Ignored" and changes none of the
\* shared state.
C8_NoTokenAfterTrimIgnored ==
    [][(Handled /\ SenderOf(http'.data) \in WHITELIST
                /\ ~BeginsWithToken(Strip(ContentOf(http'.data))))
       => (http'.status = 200 /\ http'.body = "Ignored" /\ UNCHANGED shared)]_vars

\* C8 witness: a text without the token was ignored while a dedup record and
\* a worker thread existed.
C8_Witness ==
    /\ http.body = "Ignored"
    /\ SenderOf(http.data) \in WHITELIST
    /\ tasks # <<>>
    /\ DOMAIN recent_messages # {}

\* The text with its surrounding whitespace trimmed, the trigger token
\* removed from its start, and the rest trimmed.
TokenRemoved(text) == Strip(SliceFrom(Strip(text), Len(TRIGGER_PREFIX)))

\* C9 (as claimed): the prompt handed to the thread a request starts is the
\* message text with the trigger token removed and the surrounding
\* whitespace trimmed, whatever whitespace surrounds the text.
C9_PromptIsTextWithoutToken ==
    [][Len(tasks') > Len(tasks)
       => tasks'[Len(tasks')].prompt = TokenRemoved(ContentOf(http'.data))]_vars

(* ------------------------------------------------------------------ *)
(* C10                                                                 *)
(* ------------------------------------------------------------------ *)

\* The turns task t has appended to its sender's history.
TurnsBy(t) ==
    LET log == Get(appended, tasks[t].from_number, <<>>)
    IN  {i \in 1..Len(log) : log[i].by = t}

\* C10: a worker whose Inference Gateway call failed holds one of the two
\* fixed apology strings as its reply, has appended only its user turn to the
\* history, stores the apology as the pending reply at line 105 and, having
\* finished, has started its timer; the failure changes neither the history
\* nor the response already returned.
C10_FailureApologises ==
    /\ [](\A t \in DOMAIN tasks :
            tasks[t].failed =>
              /\ tasks[t].reply \in Apologies
              /\ Cardinality(TurnsBy(t)) = 1
              /\ \A i \in TurnsBy(t) :
                    appended[tasks[t].from_number][i].turn = Turn("user", tasks[t].prompt)
              /\ tasks[t].pc = "done" =>
                    /\ t \in DOMAIN timers
                    /\ timers[t].from_number = tasks[t].from_number
                    /\ timers[t].state # "new")
    /\ [][\A t \in DOMAIN tasks :
            /\ (~tasks[t].failed /\ tasks'[t].failed) =>
                  /\ tasks'[t].pc = "L105"
                  /\ UNCHANGED <<user_contexts, http>>
            /\ (tasks[t].failed /\ tasks[t].pc = "L105" /\ tasks'[t].pc # "L105") =>
                  /\ tasks'[t].pc = "L108"
                  /\ pending_replies'[tasks[t].from_number] = tasks[t].reply
                  /\ UNCHANGED <<user_contexts, http>>]_vars

\* C10 witness: a worker whose call failed has finished, its timer is armed
\* and the pending reply of its sender is the apology.
C10_Witness ==
    \E t \in DOMAIN tasks :
        /\ tasks[t].failed
        /\ tasks[t].pc = "done"
        /\ Live(t)
        /\ Get(pending_replies, tasks[t].from_number, None) \in Apologies

(* ------------------------------------------------------------------ *)
(* C11                                                                 *)
(* ------------------------------------------------------------------ *)

\* The dedup record an admission of the request at the present time writes.
RecordOf(data) == [hash |-> Sha256Hex(Encode(ContentOf(data))), time |-> now]

\* C11: with requests handled one after another, a step that admits a request
\* (starts a thread) sets the sender's dedup record to the digest of that
\* request's text and the time of the admission and leaves the records of the
\* other senders alone; every other step (a request rejected as duplicate,
\* ignored, unauthorized or bad, a worker's or a timer's step, the passing of
\* time) leaves every record as it was.  So right after an admission the
\* record of its sender holds the digest of the admitted text, and no record
\* is younger than the last admission.
C11_RecordIsLastAdmission ==
    /\ [](/\ http.body = "OK" =>
                /\ SenderOf(http.data) \in DOMAIN recent_messages
                /\ recent_messages[SenderOf(http.data)].hash
                       = Sha256Hex(Encode(ContentOf(http.data)))
          /\ \A s \in DOMAIN recent_messages :
                s \in WHITELIST /\ recent_messages[s].time <= now /\ TasksOf(s) # {})
    /\ [][IF Len(tasks') > Len(tasks)
          THEN /\ http'.body = "OK"
               /\ recent_messages' =
                      Put(recent_messages, SenderOf(http'.data), RecordOf(http'.data))
          ELSE recent_messages' = recent_messages]_vars

\* C11 witness: a repeat was rejected in the last second of the window and
\* the record still carries the time of the admission, the window's start.
C11_Witness ==
    /\ http.body = "Duplicate ignored"
    /\ now = REPEAT_TIMEOUT - 1
    /\ recent_messages[SenderOf(http.data)]
           = [hash |-> Sha256Hex(Encode(ContentOf(http.data))), time |-> 0]

(* ------------------------------------------------------------------ *)
(* C12                                                                 *)
(* ------------------------------------------------------------------ *)

\* The first MAX_SMS_CHARS characters of a text followed by the truncation
\* marker when the text is longer than MAX_SMS_CHARS, the text otherwise.
Cut(text) ==
    IF Len(text) > MAX_SMS_CHARS
    THEN SubSeq(text, 1, MAX_SMS_CHARS) \o TRUNCATION_MARKER
    ELSE text

\* The texts a successful call of the Inference Gateway produced for a sender
\* (the assistant turns appended at line 170).
Produced(s) ==
    {Get(appended, s, <<>>)[i].turn.content :
        i \in {k \in 1..Len(Get(appended, s, <<>>)) :
                  Get(appended, s, <<>>)[k].turn.role = "assistant"}}

\* C12: a worker whose call succeeded turns the produced text into its first
\* MAX_SMS_CHARS characters followed by the marker when it is longer than
\* MAX_SMS_CHARS and keeps it unchanged otherwise; every text handed to the
\* Notification Gateway is one of the apologies or a produced text of the
\* sender in that form, and is at most MAX_SMS_CHARS plus the marker's length
\* long; and the produced text of a sender's only message, once everything
\* has settled, is what was delivered, in that form.
C12_LongReplyCut ==
    /\ [](/\ \A i \in 1..Len(sms) :
                /\ Len(sms[i][2]) <= MAX_SMS_CHARS + Len(TRUNCATION_MARKER)
                /\ \/ sms[i][2] \in Apologies
                   \/ \E raw \in Produced(sms[i][1]) : sms[i][2] = Cut(raw)
          /\ \A s \in WHITELIST :
                (/\ Quiescent(s)
                 /\ Cardinality(TasksOf(s)) = 1
                 /\ \E raw \in Produced(s) : Truthy(raw))
                => \E raw \in Produced(s) : Delivered(s) = <<Cut(raw)>>)
    /\ [][\A t \in DOMAIN tasks :
            (tasks[t].pc = "L170" /\ tasks'[t].pc # "L170")
            => tasks'[t].reply = Cut(tasks[t].reply)]_vars

\* C12 witness: a text longer than MAX_SMS_CHARS was produced and what was
\* delivered is its first MAX_SMS_CHARS characters and the marker.
C12_Witness ==
    \E i \in 1..Len(sms) :
        /\ LongText \in Produced(sms[i][1])
        /\ Len(LongText) > MAX_SMS_CHARS
        /\ sms[i][2] = SubSeq(LongText, 1, MAX_SMS_CHARS) \o TRUNCATION_MARKER
        /\ Len(sms[i][2]) = MAX_SMS_CHARS + Len(TRUNCATION_MARKER)

(* ------------------------------------------------------------------ *)
(* C13                                                                 *)
(* ------------------------------------------------------------------ *)

\* The last n elements of a sequence (all of them when it has fewer).
Suffix(seq, n) == SubSeq(seq, Max({1, Len(seq) - n + 1}), Len(seq))

\* C13 (as claimed): under every interleaving of the workers of a sender, the
\* sender's history is the turns appended for the sender, each exactly once
\* and in order, less some of the oldest ones and never less than the most
\* recent MAX_CONTEXT_LEN of them.
C13_NoTurnLostOrRepeated ==
    \A s \in DOMAIN user_contexts :
        /\ user_contexts[s] = Suffix(Appended(s), Len(user_contexts[s]))
        /\ Len(user_contexts[s]) >= Len(Suffix(Appended(s), MAX_CONTEXT_LEN))

(* ------------------------------------------------------------------ *)
(* C14                                                                 *)
(* ------------------------------------------------------------------ *)

\* The task that stored the reply now pending for a sender: the last one to
\* have executed line 105.
LastStorer(s) == Stored(s)[Len(Stored(s))]

\* C14 (as claimed): when a timer's callback takes a reply from the pending
\* slot (line 119) to hand it to the Notification Gateway, a full delay has
\* elapsed since that reply was stored, under every interleaving (so the
\* timer was not armed before the reply was stored).
C14_DelayRestartsAtEveryStore ==
    [][\A m \in DOMAIN timers :
          (/\ timers[m].state = "L119"
           /\ timers'[m].state = "L120"
           /\ timers'[m].reply # None)
          => now >= tasks[LastStorer(timers[m].from_number)].at105.time
                       + TIMER_INTERVAL]_vars

(* ------------------------------------------------------------------ *)
(* C15                                                                 *)
(* ------------------------------------------------------------------ *)

\* The timers of a sender whose callback holds a reply it took from the
\* pending slot and has not yet handed to the Notification Gateway.
Holding(s) ==
    {m \in TimersOf(s) : timers[m].state \in {"L120", "L122"} /\ timers[m].reply # None}

\* The timers of a sender whose callback has returned.
Exited(s) == {m \in TimersOf(s) : timers[m].state = "exited"}

\* C15: the callback takes the pending reply and clears the slot in one step
\* (line 119), and a callback that found the slot empty sends nothing; so,
\* under every interleaving, every reply stored is in at most one place (the
\* slot, a callback's hands, or delivered), a timer delivers at most once,
\* and a sender's deliveries never outnumber the replies stored for it.
C15_EachReplyAtMostOnce ==
    /\ [](\A s \in WHITELIST :
            /\ Len(Delivered(s)) + Cardinality(Holding(s))
                   + (IF s \in DOMAIN pending_replies THEN 1 ELSE 0) <= Len(Stored(s))
            /\ Len(Delivered(s)) <= Cardinality(Exited(s))
            /\ Len(Delivered(s)) <= Len(Stored(s)))
    /\ [][/\ Len(sms') <= Len(sms) + 1
          /\ \A m \in DOMAIN timers :
                /\ (timers[m].state = "L119" /\ timers'[m].state # "L119") =>
                      /\ timers'[m].reply = Get(pending_replies, timers[m].from_number, None)
                      /\ timers[m].from_number \notin DOMAIN pending_replies'
                /\ (/\ timers[m].state = "L122"
                    /\ timers'[m].state # "L122"
                    /\ timers[m].reply = None) => sms' = sms
                /\ timers[m].state = "exited" => timers'[m].state = "exited"
          /\ sms' # sms =>
                \E m \in DOMAIN timers :
                    /\ timers[m].state = "L122" /\ timers'[m].state = "exited"
                    /\ sms' = Append(sms, <<timers[m].from_number, timers[m].reply>>)]_vars

\* C15 witness: two non-empty replies were stored for a sender and two timers
\* of the sender fired and returned; one found the slot empty, and there was
\* one delivery, of the reply stored last.
C15_Witness ==
    \E s \in WHITELIST :
        /\ Len(Stored(s)) = 2
        /\ Truthy(tasks[Stored(s)[1]].reply)
        /\ Truthy(tasks[Stored(s)[2]].reply)
        /\ Cardinality(Exited(s)) = 2
        /\ s \notin DOMAIN pending_replies
        /\ Delivered(s) = <<tasks[Stored(s)[2]].reply>>

(* ------------------------------------------------------------------ *)
(* C16                                                                 *)
(* ------------------------------------------------------------------ *)

\* The thread started by the last admitted message of a sender.
LastAdmitted(s) == tasks[Max(TasksOf(s))]

\* C16: with requests handled one after another, a trigger-prefixed message
\* of an allow-listed sender whose text differs from the sender's last
\* admitted message (their prompts differ) is admitted and starts a thread,
\* whatever was admitted before that and however recently: only an exact
\* repeat of the last admitted message is suppressed.
C16_OnlyLastBodySuppressed ==
    [][(/\ Handled
        /\ SenderOf(http'.data) \in WHITELIST
        /\ BeginsWithToken(Strip(ContentOf(http'.data)))
        /\ TasksOf(SenderOf(http'.data)) # {}
        /\ LastAdmitted(SenderOf(http'.data)).prompt # TokenRemoved(ContentOf(http'.data)))
       => /\ Len(tasks') = Len(tasks) + 1
          /\ http'.body = "OK"
          /\ tasks'[Len(tasks')].from_number = SenderOf(http'.data)]_vars

\* C16 witness: a sender sent A, then B, then A again within REPEAT_TIMEOUT,
\* and three threads were started.
C16_Witness ==
    /\ Len(tasks) = 3
    /\ \A t \in 1..3 : tasks[t].from_number = Sender1
    /\ tasks[1].prompt = <<"A">>
    /\ tasks[2].prompt = <<"B">>
    /\ tasks[3].prompt = <<"A">>
    /\ now < REPEAT_TIMEOUT

(* ------------------------------------------------------------------ *)
(* C17                                                                 *)
(* ------------------------------------------------------------------ *)

\* The requests of a sender that passed the trigger filter all carry the
\* same text.
OneBody(s) ==
    \A g, h \in DOMAIN handlers :
        (SenderOf(handlers[g].data) = s /\ SenderOf(handlers[h].data) = s)
        => ContentOf(handlers[g].data) = ContentOf(handlers[h].data)

\* C17 (as claimed): when requests with the same body from the same sender
\* are handled concurrently within the suppression window, at most one of
\* them is admitted and at most one thread is started for the sender, under
\* every interleaving of the handlers' steps.
C17_OneAdmissionPerWindow ==
    \A s \in WHITELIST :
        (OneBody(s) /\ now < REPEAT_TIMEOUT) => Cardinality(TasksOf(s)) <= 1

(* ------------------------------------------------------------------ *)
(* C18                                                                 *)
(* ------------------------------------------------------------------ *)

\* What a dict holds for a key: nothing, or one value.
Entry(d, k) == IF k \in DOMAIN d THEN <<d[k]>> ELSE <<>>

\* The per-sender state: dedup record, history, pending reply, timer
\* reference, and the timer objects of the sender.
StateOf(s) ==
    <<Entry(recent_messages, s), Entry(user_contexts, s), Entry(pending_replies, s),
      Entry(send_timers, s), [m \in TimersOf(s) |-> timers[m]]>>

\* The senders on whose behalf a step is taken: those of the handler, worker
\* and timer threads that are created or move in the step.
Actors ==
    {SenderOf(handlers'[h].data) :
        h \in {g \in DOMAIN handlers' : g \notin DOMAIN handlers \/ handlers'[g] # handlers[g]}}
    \cup {tasks'[t].from_number :
        t \in {u \in DOMAIN tasks' : u \notin DOMAIN tasks \/ tasks'[u] # tasks[u]}}
    \cup {timers'[m].from_number :
        m \in {n \in DOMAIN timers' : n \notin DOMAIN timers \/ timers'[n] # timers[n]}}

\* The replies stored (line 105) for a sender so far.
StoredTexts(s) == {tasks[Stored(s)[i]].reply : i \in 1..Len(Stored(s))}

\* C18: every step is taken for one sender, and leaves the dedup record, the
\* history, the pending reply and the timer of every other sender as they
\* were; a delivery made in the step is addressed to that sender and carries
\* a text stored for that sender.
C18_SendersIsolated ==
    [][/\ Cardinality(Actors) <= 1
       /\ \A Y \in WHITELIST : Y \notin Actors => StateOf(Y)' = StateOf(Y)
       /\ sms' # sms =>
             \E X \in Actors : \E text \in StoredTexts(X) :
                 sms' = Append(sms, <<X, text>>)]_vars

\* C18 witness: a text was delivered to one sender while the other had a
\* dedup record, a history, a pending reply with another text and a timer.
C18_Witness ==
    \E X, Y \in WHITELIST :
        /\ X # Y
        /\ Len(Delivered(X)) = 1
        /\ Y \in DOMAIN recent_messages
        /\ Y \in DOMAIN user_contexts
        /\ Y \in DOMAIN send_timers
        /\ Y \in DOMAIN pending_replies
        /\ Truthy(pending_replies[Y])
        /\ pending_replies[Y] # Delivered(X)[1]

(* ------------------------------------------------------------------ *)
(* C19                                                                 *)
(* ------------------------------------------------------------------ *)

\* C19: a callback that takes the empty text from the pending slot clears the
\* slot (line 119), removes the timer reference (line 120) and returns
\* without a delivery (line 122); so when an empty reply replaced an earlier
\* non-empty one within the first one's delay, nothing at all is delivered
\* and nothing is left pending.
C19_EmptyReplyNotDelivered ==
    /\ [](\A s \in WHITELIST :
            (/\ TwoRunsInOneDelay(s)
             /\ Truthy(tasks[Stored(s)[1]].reply)
             /\ tasks[Stored(s)[2]].reply = <<>>)
            => /\ Delivered(s) = <<>>
               /\ s \notin DOMAIN pending_replies
               /\ s \notin DOMAIN send_timers)
    /\ [][\A m \in DOMAIN timers :
            /\ (/\ timers[m].state = "L119"
                /\ timers'[m].state # "L119"
                /\ Get(pending_replies, timers[m].from_number, None) = <<>>)
               => /\ timers'[m].reply = <<>>
                  /\ timers[m].from_number \notin DOMAIN pending_replies'
            /\ (/\ timers[m].state = "L120"
                /\ timers'[m].state # "L120"
                /\ timers[m].reply = <<>>)
               => timers[m].from_number \notin DOMAIN send_timers'
            /\ (/\ timers[m].state = "L122"
                /\ timers'[m].state # "L122"
                /\ timers[m].reply = <<>>)
               => (sms' = sms /\ timers'[m].state = "exited")]_vars

\* C19 witness: a non-empty reply was pending with its timer armed, an empty
\* reply replaced it within the delay, the second timer has fired and
\* returned, and nothing was delivered.
C19_Witness ==
    \E s \in WHITELIST :
        /\ TwoRunsInOneDelay(s)
        /\ Truthy(tasks[Stored(s)[1]].reply)
        /\ tasks[Stored(s)[2]].reply = <<>>
        /\ Stored(s)[2] \in DOMAIN timers
        /\ timers[Stored(s)[2]].state = "exited"
        /\ Delivered(s) = <<>>
        /\ s \notin DOMAIN pending_replies

====
